---------------------------- MODULE Spec2Model ----------------------------
(***************************************************************************)
(* CloudflareR2FileSystem (src/src/r2.ts): a filesystem-shaped facade over *)
(* an S3-compatible bucket.  Strings are sequences of one-character        *)
(* strings; file contents are sequences of UTF-16 code units; object       *)
(* bodies are sequences of bytes.  Every operation of the facade is an     *)
(* async function: it runs synchronously up to its `await                  *)
(* this.s3Client.send(...)`, the store answers, and the continuation runs  *)
(* synchronously after the answer.                                         *)
(***************************************************************************)
EXTENDS Integers, Sequences, FiniteSets, TLC

VARIABLES
    prefix,   \* prefix[i]: this.options.prefix of facade instance i
    cache,    \* cache[i]: the Map<string, R2CacheEntry> of instance i
    store,    \* the bucket: object key -> [body, lastModified, writer]
    tasks,    \* tasks[s]: the call suspended in slot s, or NoTask
    last      \* the call that has just completed, until the next is made

vars == <<prefix, cache, store, tasks, last>>

----------------------------------------------------------------------------
(* String primitives of JavaScript used by the facade.                     *)

\* String.prototype.startsWith
StartsWith(s, pre) ==
    /\ Len(pre) <= Len(s)
    /\ SubSeq(s, 1, Len(pre)) = pre

\* String.prototype.endsWith
EndsWith(s, suf) ==
    /\ Len(suf) <= Len(s)
    /\ SubSeq(s, Len(s) - Len(suf) + 1, Len(s)) = suf

\* String.prototype.slice(n) and substring(n), for 0 <= n
Slice(s, n) ==
    IF n >= Len(s) THEN <<>> ELSE SubSeq(s, n + 1, Len(s))

\* String.prototype.includes, for a one-character needle
Includes(s, ch) ==
    \E k \in 1..Len(s) : s[k] = ch

\* s.replace(/\/$/, ""): at most one trailing slash is removed
StripTrailingSlash(s) ==
    IF EndsWith(s, <<"/">>) THEN SubSeq(s, 1, Len(s) - 1) ELSE s

\* The UTF-16 code unit of each character the model's names are made of.
CharCode(ch) ==
    CASE ch = "." -> 46
      [] ch = "/" -> 47
      [] ch = "2" -> 50
      [] ch = "a" -> 97
      [] ch = "b" -> 98
      [] ch = "c" -> 99
      [] ch = "d" -> 100
      [] ch = "e" -> 101
      [] ch = "p" -> 112
      [] ch = "q" -> 113
      [] ch = "s" -> 115
      [] ch = "x" -> 120

\* The order Array.prototype.sort() uses without a comparator: strings are
\* compared code unit by code unit, a proper prefix coming first.
RECURSIVE StrLess(_, _)
StrLess(a, b) ==
    IF a = <<>> THEN b # <<>>
    ELSE IF b = <<>> THEN FALSE
    ELSE IF CharCode(Head(a)) < CharCode(Head(b)) THEN TRUE
    ELSE IF CharCode(Head(a)) > CharCode(Head(b)) THEN FALSE
    ELSE StrLess(Tail(a), Tail(b))

RECURSIVE InsertSorted(_, _)
InsertSorted(x, sorted) ==
    IF sorted = <<>> THEN <<x>>
    ELSE IF StrLess(Head(sorted), x) THEN <<Head(sorted)>> \o InsertSorted(x, Tail(sorted))
    ELSE <<x>> \o sorted

\* The entries left in the order they were pushed.
Unsorted(seq) == seq

\* entries.sort()
RECURSIVE SortStrings(_)
SortStrings(seq) ==
    IF seq = <<>> THEN <<>>
    ELSE InsertSorted(Head(seq), SortStrings(Tail(seq)))

Range(seq) == {seq[k] : k \in 1..Len(seq)}

\* Every ordering of a finite set as a sequence.
Orderings(S) ==
    {f \in [1..Cardinality(S) -> S] : Range(f) = S}

----------------------------------------------------------------------------
(* UTF-8, as Buffer.byteLength(content, "utf-8"), the SDK's encoding of a  *)
(* string Body, and Buffer.toString("utf-8") compute it.                   *)

IsHighSurrogate(u) == 55296 <= u /\ u <= 56319
IsLowSurrogate(u) == 56320 <= u /\ u <= 57343

\* The UTF-8 bytes of one code point.
EncodeCodePoint(cp) ==
    IF cp < 128 THEN <<cp>>
    ELSE IF cp < 2048 THEN <<192 + (cp \div 64), 128 + (cp % 64)>>
    ELSE IF cp < 65536 THEN
        <<224 + (cp \div 4096), 128 + ((cp \div 64) % 64), 128 + (cp % 64)>>
    ELSE
        <<240 + (cp \div 262144), 128 + ((cp \div 4096) % 64),
          128 + ((cp \div 64) % 64), 128 + (cp % 64)>>

\* A string's UTF-8 bytes: a surrogate pair is one code point of four bytes,
\* an unpaired surrogate is replaced by U+FFFD.
RECURSIVE Utf8Encode(_)
Utf8Encode(c) ==
    IF c = <<>> THEN <<>>
    ELSE IF /\ IsHighSurrogate(c[1])
            /\ Len(c) >= 2
            /\ IsLowSurrogate(c[2])
    THEN EncodeCodePoint(65536 + (c[1] - 55296) * 1024 + (c[2] - 56320))
             \o Utf8Encode(Slice(c, 2))
    ELSE IF IsHighSurrogate(c[1]) \/ IsLowSurrogate(c[1])
    THEN EncodeCodePoint(65533) \o Utf8Encode(Tail(c))
    ELSE EncodeCodePoint(c[1]) \o Utf8Encode(Tail(c))

\* Buffer.byteLength(content, "utf-8")
ByteLength(c) == Len(Utf8Encode(c))

IsContinuation(b) == 128 <= b /\ b <= 191

\* The UTF-16 code units of one code point.
CodeUnitsOf(cp) ==
    IF cp < 65536 THEN <<cp>>
    ELSE <<55296 + ((cp - 65536) \div 1024), 56320 + ((cp - 65536) % 1024)>>

\* buffer.toString("utf-8"): each well-formed sequence is its code point,
\* a byte that starts none is U+FFFD.
RECURSIVE Utf8Decode(_)
Utf8Decode(b) ==
    IF b = <<>> THEN <<>>
    ELSE IF b[1] < 128 THEN <<b[1]>> \o Utf8Decode(Tail(b))
    ELSE IF /\ 194 <= b[1] /\ b[1] <= 223
            /\ Len(b) >= 2 /\ IsContinuation(b[2])
    THEN CodeUnitsOf((b[1] - 192) * 64 + (b[2] - 128)) \o Utf8Decode(Slice(b, 2))
    ELSE IF /\ 224 <= b[1] /\ b[1] <= 239
            /\ Len(b) >= 3 /\ IsContinuation(b[2]) /\ IsContinuation(b[3])
    THEN CodeUnitsOf((b[1] - 224) * 4096 + (b[2] - 128) * 64 + (b[3] - 128))
             \o Utf8Decode(Slice(b, 3))
    ELSE IF /\ 240 <= b[1] /\ b[1] <= 244
            /\ Len(b) >= 4 /\ IsContinuation(b[2]) /\ IsContinuation(b[3])
            /\ IsContinuation(b[4])
    THEN CodeUnitsOf((b[1] - 240) * 262144 + (b[2] - 128) * 4096
                       + (b[3] - 128) * 64 + (b[4] - 128))
             \o Utf8Decode(Slice(b, 4))
    ELSE <<65533>> \o Utf8Decode(Tail(b))

\* A decoder that takes every byte for one character.
Latin1ToString(body) == body

\* streamToString: the chunks of the body are concatenated and decoded once.
StreamToString(body) == Utf8Decode(body)


----------------------------------------------------------------------------
(* KeyCodec and ErrorClassifier.                                           *)

\* A key codec that applies no prefix.
UnprefixedKey(pfx, path) ==
    IF StartsWith(path, <<"/">>) THEN Slice(path, 1) ELSE path

\* getR2Key: one leading "/" is stripped, then the prefix is applied.
getR2Key(pfx, path) ==
    LET normalizedPath == IF StartsWith(path, <<"/">>) THEN Slice(path, 1) ELSE path
    IN  IF pfx # <<>> THEN pfx \o <<"/">> \o normalizedPath ELSE normalizedPath

\* A key decoder that returns every key as it is.
KeyAsPath(pfx, key) == key

\* getLocalPath: the prefix and its slash are removed from a key that
\* starts with them; any other key is returned unchanged.
getLocalPath(pfx, key) ==
    IF pfx # <<>> /\ StartsWith(key, pfx \o <<"/">>)
    THEN Slice(key, Len(pfx) + 1)
    ELSE key

\* A directory path used as it is given, without a closing slash.
NormalizeDirBare(path) == path

\* path.endsWith("/") ? path : `${path}/` (readDir and deleteDir)
NormalizeDir(path) ==
    IF EndsWith(path, <<"/">>) THEN path ELSE path \o <<"/">>

\* The errors the store client raises: a missing key on GetObject, a 404
\* on HeadObject, a missing bucket (also a 404) on any request, and a
\* failure that carries no HTTP status at all (status 0 stands for an
\* absent $metadata.httpStatusCode).
NoError == [name |-> "", status |-> 0]
MissingKeyErrors ==
    { [name |-> "NoSuchKey", status |-> 404],
      [name |-> "NotFound", status |-> 404] }
MissingBucketErrors ==
    { [name |-> "NoSuchBucket", status |-> 404] }
StoreErrors ==
    MissingKeyErrors \cup MissingBucketErrors
        \cup {[name |-> "TimeoutError", status |-> 0]}

\* A classifier that takes every error for a not-found signal.
AlwaysNotFound(error) == TRUE

\* A classifier that takes no error for a not-found signal.
NeverNotFound(error) == FALSE

\* isNotFoundError
isNotFoundError(error) ==
    \/ error.name = "NoSuchKey"
    \/ error.status = 404

----------------------------------------------------------------------------
(* The bucket behind the S3 client.                                        *)

\* Absent header values of a response: ContentLength undefined,
\* LastModified undefined, ETag undefined.
NoLength == -1
NoTime == 0
NoETag == <<>>

\* The writer of an object that no facade of this session has put.
NoWriter == 0

\* The store's identifier of a body (a quoted hash of it).
ETagOf(body) == <<34>> \o body

\* ListObjectsV2 returns at most this many keys and common prefixes in one
\* response; r2.ts passes neither MaxKeys nor a ContinuationToken, so the
\* store's page limit decides (1000 in S3 and R2, scaled down here).
MaxKeys == 2

\* The first "/" of a non-empty remainder.
FirstSlash(rest) ==
    CHOOSE j \in 1..Len(rest) :
        /\ rest[j] = "/"
        /\ \A k \in 1..(j - 1) : rest[k] # "/"

\* What one key under the listed prefix rolls up to: itself, or with a
\* delimiter the common prefix up to the next "/".
ListItem(pfxKey, key, delimited) ==
    LET rest == Slice(key, Len(pfxKey))
    IN  IF delimited /\ Includes(rest, "/")
        THEN [kind |-> "prefix", name |-> pfxKey \o SubSeq(rest, 1, FirstSlash(rest))]
        ELSE [kind |-> "object", name |-> key]

ListItems(bucket, pfxKey, delimited) ==
    {ListItem(pfxKey, k, delimited) : k \in {k \in DOMAIN bucket : StartsWith(k, pfxKey)}}

\* The first page: the MaxKeys smallest items in key order.
FirstPage(bucket, pfxKey, delimited) ==
    LET items == ListItems(bucket, pfxKey, delimited)
    IN  {x \in items :
            Cardinality({y \in items : StrLess(y.name, x.name)}) < MaxKeys}

\* One entry of Contents.
ListedObject(bucket, key) ==
    [Key |-> key,
     Size |-> Len(bucket[key].body),
     LastModified |-> bucket[key].lastModified,
     ETag |-> ETagOf(bucket[key].body)]

----------------------------------------------------------------------------
(* Calls in flight and the record of the last completed call.              *)

Insts == {1, 2}
Slots == {1, 2}

NoResp ==
    [ok |-> FALSE, err |-> NoError, body |-> <<>>, ContentLength |-> NoLength,
     LastModified |-> NoTime, ETag |-> NoETag, Contents |-> <<>>,
     CommonPrefixes |-> <<>>]

\* A completed call in brief: who called what with which arguments, and
\* what came back.
NoBrief ==
    [inst |-> 0, op |-> "none", path |-> <<>>, content |-> <<>>, key |-> <<>>,
     outcome |-> "none", value |-> "none", calls |-> 0]

Brief(call) ==
    [inst |-> call.inst, op |-> call.op, path |-> call.path,
     content |-> call.content, key |-> call.key, outcome |-> call.outcome,
     value |-> call.value, calls |-> call.calls]

NoTask ==
    [inst |-> 0, op |-> "none", path |-> <<>>, content |-> <<>>, key |-> <<>>,
     req |-> "none", objects |-> <<>>, phase |-> "idle", calls |-> 0,
     hit |-> FALSE, present |-> FALSE, after |-> NoBrief, resp |-> NoResp]

NoCall ==
    [inst |-> 0, op |-> "none", path |-> <<>>, content |-> <<>>, key |-> <<>>,
     outcome |-> "none", value |-> "none", calls |-> 0, hit |-> FALSE,
     present |-> FALSE, err |-> NoError, after |-> NoBrief]

\* Two keys of which one is a prefix of the other: a file and itself, a
\* file and a directory prefix above it.
Related(k1, k2) == StartsWith(k1, k2) \/ StartsWith(k2, k1)

\* The call that returned successfully just before instance i makes a call
\* on `key`, when it was a call of i on a related key.
After(i, key) ==
    IF last.inst = i /\ last.outcome = "ok" /\ Related(last.key, key)
    THEN Brief(last)
    ELSE NoBrief

\* A call suspended at `await this.s3Client.send(command)`.
Sent(i, op, path, content, key, req) ==
    [inst |-> i, op |-> op, path |-> path, content |-> content, key |-> key,
     req |-> req, objects |-> <<>>, phase |-> "sent", calls |-> 1,
     hit |-> key \in DOMAIN cache[i], present |-> FALSE,
     after |-> After(i, key), resp |-> NoResp]

\* What a call completed with: its outcome ("ok" or the failure it threw),
\* the value it returned, the store calls it issued, whether the cache held
\* the key when it was called (hit), whether the bucket held the key when
\* the store served it (present), and the call it came after.
Completed(t, outcome, value) ==
    [inst |-> t.inst, op |-> t.op, path |-> t.path, content |-> t.content,
     key |-> t.key, outcome |-> outcome, value |-> value, calls |-> t.calls,
     hit |-> t.hit, present |-> t.present, err |-> t.resp.err,
     after |-> t.after]

\* A call is issued in a free slot; `last` is kept only until then.
Issue(s, call) ==
    /\ tasks[s] = NoTask
    /\ tasks' = [tasks EXCEPT ![s] = call]
    /\ last' = NoCall

\* A call that returns without a store call.
Return(s, call, value) ==
    /\ tasks[s] = NoTask
    /\ last' = Completed([call EXCEPT !.calls = 0], "ok", value)
    /\ UNCHANGED tasks

Suspended(s) == tasks[s].phase = "sent"
Answered(s) == tasks[s].phase = "answered"

Answer(s, resp, present) ==
    tasks' = [tasks EXCEPT ![s] =
                 [@ EXCEPT !.phase = "answered", !.resp = resp, !.present = present]]

Finish(s, outcome, value) ==
    /\ last' = Completed(tasks[s], outcome, value)
    /\ tasks' = [tasks EXCEPT ![s] = NoTask]

----------------------------------------------------------------------------
(* The synchronous part of each operation up to its first store call.      *)

\* readFile that answers a cached key without a store call.
ReadFileCallCached(s, i, path) ==
    LET key == getR2Key(prefix[i], path)
        call == Sent(i, "readFile", path, <<>>, key, "get")
    IN  /\ IF key \in DOMAIN cache[i]
           THEN Return(s, call, <<>>)
           ELSE Issue(s, call)
        /\ UNCHANGED <<prefix, cache, store>>

\* readFile: the cache is consulted without effect, then GetObject is sent.
ReadFileCall(s, i, path) ==
    /\ Issue(s, Sent(i, "readFile", path, <<>>, getR2Key(prefix[i], path), "get"))
    /\ UNCHANGED <<prefix, cache, store>>

\* writeFile: PutObject is sent with the content as Body.
WriteFileCall(s, i, path, content) ==
    /\ Issue(s, Sent(i, "writeFile", path, content, getR2Key(prefix[i], path), "put"))
    /\ UNCHANGED <<prefix, cache, store>>

\* exists without the cache check.
ExistsCallUncached(s, i, path) ==
    /\ Issue(s, Sent(i, "exists", path, <<>>, getR2Key(prefix[i], path), "head"))
    /\ UNCHANGED <<prefix, cache, store>>

\* exists: a cached key answers true at once; otherwise HeadObject is sent.
ExistsCall(s, i, path) ==
    LET key == getR2Key(prefix[i], path)
        call == Sent(i, "exists", path, <<>>, key, "head")
    IN  /\ IF key \in DOMAIN cache[i]
           THEN Return(s, call, TRUE)
           ELSE Issue(s, call)
        /\ UNCHANGED <<prefix, cache, store>>

\* deleteFile: DeleteObject is sent.
DeleteFileCall(s, i, path) ==
    /\ Issue(s, Sent(i, "deleteFile", path, <<>>, getR2Key(prefix[i], path), "delete"))
    /\ UNCHANGED <<prefix, cache, store>>

\* readDir: ListObjectsV2 is sent with the encoded directory prefix and the
\* delimiter "/".
ReadDirCall(s, i, path) ==
    /\ Issue(s, Sent(i, "readDir", path, <<>>,
                     getR2Key(prefix[i], NormalizeDir(path)), "list"))
    /\ UNCHANGED <<prefix, cache, store>>

\* deleteDir: ListObjectsV2 is sent with the encoded directory prefix and no
\* delimiter.
DeleteDirCall(s, i, path) ==
    /\ Issue(s, Sent(i, "deleteDir", path, <<>>,
                     getR2Key(prefix[i], NormalizeDir(path)), "listAll"))
    /\ UNCHANGED <<prefix, cache, store>>

\* The FileStats a cache entry or a HeadObject response is turned into.
FileStats(size, mtime, ctime, atime) ==
    [size |-> size, mtime |-> mtime, ctime |-> ctime, atime |-> atime,
     isFile |-> TRUE, isDirectory |-> FALSE, isSymbolicLink |-> FALSE]

\* The statistics stat synthesizes from a cache entry.
CachedStats(cached) ==
    FileStats(cached.size, cached.lastModified, cached.lastModified,
              cached.lastModified)

\* stat without the cache check.
StatCallUncached(s, i, path) ==
    /\ Issue(s, Sent(i, "stat", path, <<>>, getR2Key(prefix[i], path), "head"))
    /\ UNCHANGED <<prefix, cache, store>>

\* stat: a cached entry is returned as the statistics at once; otherwise
\* HeadObject is sent.
StatCall(s, i, path) ==
    LET key == getR2Key(prefix[i], path)
        call == Sent(i, "stat", path, <<>>, key, "head")
    IN  /\ IF key \in DOMAIN cache[i]
           THEN Return(s, call, CachedStats(cache[i][key]))
           ELSE Issue(s, call)
        /\ UNCHANGED <<prefix, cache, store>>

----------------------------------------------------------------------------
(* The store serves a pending request.  Any request may fail with any of   *)
(* the client's errors, and a failed request leaves the bucket as it was.  *)

\* Which headers a successful GetObject or HeadObject response carries:
\* the SDK types ContentLength and LastModified as optional.
HeaderShapes == {"full", "noLength", "noModified"}

ObjectResp(obj, shape, withBody) ==
    [NoResp EXCEPT
        !.ok = TRUE,
        !.body = IF withBody THEN obj.body ELSE <<>>,
        !.ContentLength = IF shape = "noLength" THEN NoLength ELSE Len(obj.body),
        !.LastModified = IF shape = "noModified" THEN NoTime ELSE obj.lastModified,
        !.ETag = ETagOf(obj.body)]

\* A request fails.  The store reports a missing key only for a request on
\* one key that the bucket does not hold, and a missing bucket only when
\* there is no object at all.
StoreFail(s, ES) ==
    /\ Suspended(s)
    /\ \E e \in ES :
          /\ e \in MissingKeyErrors =>
                 /\ tasks[s].req \in {"get", "head", "delete"}
                 /\ tasks[s].key \notin DOMAIN store
          /\ e \in MissingBucketErrors => DOMAIN store = {}
          /\ Answer(s, [NoResp EXCEPT !.err = e], tasks[s].key \in DOMAIN store)
    /\ UNCHANGED <<prefix, cache, store, last>>

StoreGet(s, HS) ==
    /\ Suspended(s)
    /\ tasks[s].req = "get"
    /\ tasks[s].key \in DOMAIN store
    /\ \E shape \in HS :
          Answer(s, ObjectResp(store[tasks[s].key], shape, TRUE), TRUE)
    /\ UNCHANGED <<prefix, cache, store, last>>

StoreHead(s, HS) ==
    /\ Suspended(s)
    /\ tasks[s].req = "head"
    /\ tasks[s].key \in DOMAIN store
    /\ \E shape \in HS :
          Answer(s, ObjectResp(store[tasks[s].key], shape, FALSE), TRUE)
    /\ UNCHANGED <<prefix, cache, store, last>>

\* PutObject stores the UTF-8 bytes of the Body under the key.  `writer`
\* remembers the facade that sent it.
StorePut(s, TS) ==
    LET t == tasks[s]
        body == Utf8Encode(t.content)
    IN  /\ Suspended(s)
        /\ t.req = "put"
        /\ \E now \in TS :
              store' = [k \in DOMAIN store \cup {t.key} |->
                           IF k = t.key
                           THEN [body |-> body, lastModified |-> now, writer |-> t.inst]
                           ELSE store[k]]
        /\ Answer(s, [NoResp EXCEPT !.ok = TRUE, !.ETag = ETagOf(body)],
                  t.key \in DOMAIN store)
        /\ UNCHANGED <<prefix, cache, last>>

\* DeleteObject succeeds whether or not the key is there.
StoreDelete(s) ==
    LET t == tasks[s]
    IN  /\ Suspended(s)
        /\ t.req = "delete"
        /\ store' = [k \in DOMAIN store \ {t.key} |-> store[k]]
        /\ Answer(s, [NoResp EXCEPT !.ok = TRUE], t.key \in DOMAIN store)
        /\ UNCHANGED <<prefix, cache, last>>

\* ListObjectsV2: the first page of what lies under the prefix, in any
\* order within Contents and within CommonPrefixes.
StoreList(s) ==
    LET t == tasks[s]
        page == FirstPage(store, t.key, t.req = "list")
        objs == {ListedObject(store, x.name) : x \in {y \in page : y.kind = "object"}}
        pfxs == {[Prefix |-> x.name] : x \in {y \in page : y.kind = "prefix"}}
    IN  /\ Suspended(s)
        /\ t.req \in {"list", "listAll"}
        /\ \E cs \in Orderings(objs), ps \in Orderings(pfxs) :
              Answer(s, [NoResp EXCEPT !.ok = TRUE, !.Contents = cs,
                                       !.CommonPrefixes = ps],
                     page # {})
        /\ UNCHANGED <<prefix, cache, store, last>>

\* DeleteObjects removes every key of the batch.
StoreDeleteObjects(s) ==
    LET t == tasks[s]
        gone == {o.Key : o \in Range(t.objects)}
    IN  /\ Suspended(s)
        /\ t.req = "deleteObjects"
        /\ store' = [k \in DOMAIN store \ gone |-> store[k]]
        /\ Answer(s, [NoResp EXCEPT !.ok = TRUE], t.present)
        /\ UNCHANGED <<prefix, cache, last>>

----------------------------------------------------------------------------
(* The continuation of each operation after the store's answer.            *)

\* A cache that holds the latest entry only.
CacheSetOnly(c, key, entry) == [k \in {key} |-> entry]

\* Map.prototype.set and Map.prototype.delete
CacheSet(c, key, entry) ==
    [k \in DOMAIN c \cup {key} |-> IF k = key THEN entry ELSE c[k]]

CacheDelete(c, keys) ==
    [k \in DOMAIN c \ keys |-> c[k]]

\* A cache that takes nothing from a response.
CacheUnobserved(c, key, resp) == c

\* The entry readFile and exists cache from a response, when it carries
\* both ContentLength and LastModified.
CacheObserved(c, key, resp) ==
    IF resp.ContentLength # NoLength /\ resp.LastModified # NoTime
    THEN CacheSet(c, key, [size |-> resp.ContentLength,
                           lastModified |-> resp.LastModified,
                           etag |-> resp.ETag])
    ELSE c

\* readFile that sends its get once more after a failure.
ReadFileResumeRetry(s) ==
    LET t == tasks[s]
    IN  /\ Answered(s)
        /\ t.op = "readFile"
        /\ IF t.resp.ok
           THEN /\ cache' = [cache EXCEPT ![t.inst] = CacheObserved(@, t.key, t.resp)]
                /\ Finish(s, "ok", StreamToString(t.resp.body))
           ELSE IF t.calls < 2
           THEN /\ tasks' = [tasks EXCEPT ![s] =
                                [t EXCEPT !.phase = "sent", !.calls = 2, !.resp = NoResp]]
                /\ UNCHANGED <<cache, last>>
           ELSE /\ Finish(s, IF isNotFoundError(t.resp.err) THEN "NotFound"
                             ELSE "ReadFailure", "none")
                /\ UNCHANGED cache
        /\ UNCHANGED <<prefix, store>>

ReadFileResume(s) ==
    LET t == tasks[s]
    IN  /\ Answered(s)
        /\ t.op = "readFile"
        /\ IF t.resp.ok
           THEN /\ cache' = [cache EXCEPT ![t.inst] = CacheObserved(@, t.key, t.resp)]
                /\ Finish(s, "ok", StreamToString(t.resp.body))
           ELSE /\ Finish(s, IF isNotFoundError(t.resp.err) THEN "NotFound"
                             ELSE "ReadFailure", "none")
                /\ UNCHANGED cache
        /\ UNCHANGED <<prefix, store>>

\* writeFile that caches the size of the object the bucket holds when the
\* call resumes.
WriteFileResumeFromStore(s, TS) ==
    LET t == tasks[s]
    IN  /\ Answered(s)
        /\ t.op = "writeFile"
        /\ IF t.resp.ok
           THEN /\ \E now \in TS :
                      cache' = [cache EXCEPT ![t.inst] =
                                   CacheSet(@, t.key,
                                            [size |-> IF t.key \in DOMAIN store
                                                      THEN Len(store[t.key].body)
                                                      ELSE 0,
                                             lastModified |-> now,
                                             etag |-> t.resp.ETag])]
                /\ Finish(s, "ok", "void")
           ELSE /\ Finish(s, "WriteFailure", "none")
                /\ UNCHANGED cache
        /\ UNCHANGED <<prefix, store>>

\* writeFile that takes a not-found error for a success.
WriteFileResumeLenient(s, TS) ==
    LET t == tasks[s]
    IN  /\ Answered(s)
        /\ t.op = "writeFile"
        /\ IF t.resp.ok
           THEN /\ \E now \in TS :
                      cache' = [cache EXCEPT ![t.inst] =
                                   CacheSet(@, t.key, [size |-> ByteLength(t.content),
                                                       lastModified |-> now,
                                                       etag |-> t.resp.ETag])]
                /\ Finish(s, "ok", "void")
           ELSE /\ Finish(s, IF isNotFoundError(t.resp.err) THEN "ok"
                             ELSE "WriteFailure", "void")
                /\ UNCHANGED cache
        /\ UNCHANGED <<prefix, store>>

\* writeFile that caches nothing.
WriteFileResumeUncached(s, TS) ==
    LET t == tasks[s]
    IN  /\ Answered(s)
        /\ t.op = "writeFile"
        /\ Finish(s, IF t.resp.ok THEN "ok" ELSE "WriteFailure",
                  IF t.resp.ok THEN "void" ELSE "none")
        /\ UNCHANGED <<prefix, cache, store>>

WriteFileResume(s, TS) ==
    LET t == tasks[s]
    IN  /\ Answered(s)
        /\ t.op = "writeFile"
        /\ IF t.resp.ok
           THEN /\ \E now \in TS :
                      cache' = [cache EXCEPT ![t.inst] =
                                   CacheSet(@, t.key, [size |-> ByteLength(t.content),
                                                       lastModified |-> now,
                                                       etag |-> t.resp.ETag])]
                /\ Finish(s, "ok", "void")
           ELSE /\ Finish(s, "WriteFailure", "none")
                /\ UNCHANGED cache
        /\ UNCHANGED <<prefix, store>>

\* exists that takes every store error for an absent file.
ExistsResumeLenient(s) ==
    LET t == tasks[s]
    IN  /\ Answered(s)
        /\ t.op = "exists"
        /\ IF t.resp.ok
           THEN /\ cache' = [cache EXCEPT ![t.inst] = CacheObserved(@, t.key, t.resp)]
                /\ Finish(s, "ok", TRUE)
           ELSE /\ Finish(s, "ok", FALSE)
                /\ UNCHANGED cache
        /\ UNCHANGED <<prefix, store>>

ExistsResume(s) ==
    LET t == tasks[s]
    IN  /\ Answered(s)
        /\ t.op = "exists"
        /\ IF t.resp.ok
           THEN /\ cache' = [cache EXCEPT ![t.inst] = CacheObserved(@, t.key, t.resp)]
                /\ Finish(s, "ok", TRUE)
           ELSE /\ IF isNotFoundError(t.resp.err)
                   THEN Finish(s, "ok", FALSE)
                   ELSE Finish(s, "ExistenceCheckFailure", "none")
                /\ UNCHANGED cache
        /\ UNCHANGED <<prefix, store>>

\* deleteFile on a cache that all facades share.
DeleteFileResumeShared(s) ==
    LET t == tasks[s]
    IN  /\ Answered(s)
        /\ t.op = "deleteFile"
        /\ IF t.resp.ok
           THEN /\ cache' = [i \in Insts |-> CacheDelete(cache[i], {t.key})]
                /\ Finish(s, "ok", "void")
           ELSE /\ IF isNotFoundError(t.resp.err)
                   THEN Finish(s, "ok", "void")
                   ELSE Finish(s, "DeleteFailure", "none")
                /\ UNCHANGED cache
        /\ UNCHANGED <<prefix, store>>

\* deleteFile that drops the cache entry whatever the store answered.
DeleteFileResumeEager(s) ==
    LET t == tasks[s]
    IN  /\ Answered(s)
        /\ t.op = "deleteFile"
        /\ cache' = [cache EXCEPT ![t.inst] = CacheDelete(@, {t.key})]
        /\ IF t.resp.ok \/ isNotFoundError(t.resp.err)
           THEN Finish(s, "ok", "void")
           ELSE Finish(s, "DeleteFailure", "none")
        /\ UNCHANGED <<prefix, store>>

\* The cache entry is removed after the awaited DeleteObject returned; a
\* not-found error is swallowed in the catch block.
DeleteFileResume(s) ==
    LET t == tasks[s]
    IN  /\ Answered(s)
        /\ t.op = "deleteFile"
        /\ IF t.resp.ok
           THEN /\ cache' = [cache EXCEPT ![t.inst] = CacheDelete(@, {t.key})]
                /\ Finish(s, "ok", "void")
           ELSE /\ IF isNotFoundError(t.resp.err)
                   THEN Finish(s, "ok", "void")
                   ELSE Finish(s, "DeleteFailure", "none")
                /\ UNCHANGED cache
        /\ UNCHANGED <<prefix, store>>

\* The name readDir gives an object of Contents.
FileNameOf(pfx, normalizedPath, object) ==
    Slice(getLocalPath(pfx, object.Key), Len(normalizedPath))

\* A file filter that lets the directory's own key and an empty name pass.
ListsFileUnfiltered(pfx, normalizedPath, pfxKey, object) ==
    ~Includes(FileNameOf(pfx, normalizedPath, object), "/")

\* Whether readDir lists an object of Contents as a file.
ListsFile(pfx, normalizedPath, pfxKey, object) ==
    /\ object.Key # <<>>
    /\ object.Key # pfxKey
    /\ FileNameOf(pfx, normalizedPath, object) # <<>>
    /\ ~Includes(FileNameOf(pfx, normalizedPath, object), "/")

\* The first loop of readDir: the file names pushed, in the order of Contents.
RECURSIVE FileEntries(_, _, _, _)
FileEntries(pfx, normalizedPath, pfxKey, contents) ==
    IF contents = <<>> THEN <<>>
    ELSE (IF ListsFile(pfx, normalizedPath, pfxKey, Head(contents))
          THEN <<FileNameOf(pfx, normalizedPath, Head(contents))>>
          ELSE <<>>)
         \o FileEntries(pfx, normalizedPath, pfxKey, Tail(contents))

\* A listing that caches nothing.
CacheNotListed(c, pfx, normalizedPath, pfxKey, contents) == c

\* The first loop of readDir: the metadata cached for the listed files.
RECURSIVE CacheListed(_, _, _, _, _)
CacheListed(c, pfx, normalizedPath, pfxKey, contents) ==
    IF contents = <<>> THEN c
    ELSE LET object == Head(contents)
             c1 == IF /\ ListsFile(pfx, normalizedPath, pfxKey, object)
                      /\ object.Size # NoLength
                      /\ object.LastModified # NoTime
                   THEN CacheSet(c, object.Key, [size |-> object.Size,
                                                 lastModified |-> object.LastModified,
                                                 etag |-> object.ETag])
                   ELSE c
         IN  CacheListed(c1, pfx, normalizedPath, pfxKey, Tail(contents))

\* The name readDir gives a common prefix, without its marker slash.
DirNameOf(pfx, normalizedPath, commonPrefix) ==
    StripTrailingSlash(Slice(getLocalPath(pfx, commonPrefix.Prefix), Len(normalizedPath)))

\* The second loop of readDir: the "<name>/" entries pushed.
RECURSIVE DirEntries(_, _, _)
DirEntries(pfx, normalizedPath, commonPrefixes) ==
    IF commonPrefixes = <<>> THEN <<>>
    ELSE (IF /\ Head(commonPrefixes).Prefix # <<>>
             /\ DirNameOf(pfx, normalizedPath, Head(commonPrefixes)) # <<>>
          THEN <<DirNameOf(pfx, normalizedPath, Head(commonPrefixes)) \o <<"/">>>>
          ELSE <<>>)
         \o DirEntries(pfx, normalizedPath, Tail(commonPrefixes))

\* What readDir returns for a list response.
ReadDirEntries(pfx, path, pfxKey, resp) ==
    SortStrings(FileEntries(pfx, NormalizeDir(path), pfxKey, resp.Contents)
                \o DirEntries(pfx, NormalizeDir(path), resp.CommonPrefixes))

\* readDir that takes an empty listing for a missing directory.
ReadDirResumeStrict(s) ==
    LET t == tasks[s]
        pfx == prefix[t.inst]
    IN  /\ Answered(s)
        /\ t.op = "readDir"
        /\ IF t.resp.ok /\ (t.resp.Contents # <<>> \/ t.resp.CommonPrefixes # <<>>)
           THEN /\ cache' = [cache EXCEPT ![t.inst] =
                                CacheListed(@, pfx, NormalizeDir(t.path), t.key,
                                            t.resp.Contents)]
                /\ Finish(s, "ok", ReadDirEntries(pfx, t.path, t.key, t.resp))
           ELSE /\ Finish(s, IF t.resp.ok THEN "NotFound" ELSE "ListFailure", "none")
                /\ UNCHANGED cache
        /\ UNCHANGED <<prefix, store>>

ReadDirResume(s) ==
    LET t == tasks[s]
        pfx == prefix[t.inst]
    IN  /\ Answered(s)
        /\ t.op = "readDir"
        /\ IF t.resp.ok
           THEN /\ cache' = [cache EXCEPT ![t.inst] =
                                CacheListed(@, pfx, NormalizeDir(t.path), t.key,
                                            t.resp.Contents)]
                /\ Finish(s, "ok", ReadDirEntries(pfx, t.path, t.key, t.resp))
           ELSE /\ Finish(s, "ListFailure", "none")
                /\ UNCHANGED cache
        /\ UNCHANGED <<prefix, store>>

HasKey(object) == object.Key # <<>>

\* listResponse.Contents.filter((obj) => obj.Key).map((obj) => ({ Key: obj.Key }))
BatchOf(contents) ==
    LET kept == SelectSeq(contents, HasKey)
    IN  [k \in 1..Len(kept) |-> [Key |-> kept[k].Key]]

\* deleteDir that takes a not-found error of the listing for a success.
DeleteDirListedLenient(s) ==
    LET t == tasks[s]
    IN  /\ Answered(s)
        /\ t.op = "deleteDir"
        /\ t.req = "listAll"
        /\ IF ~t.resp.ok
           THEN Finish(s, IF isNotFoundError(t.resp.err) THEN "ok"
                          ELSE "DirectoryDeleteFailure", "void")
           ELSE IF t.resp.Contents = <<>> \/ BatchOf(t.resp.Contents) = <<>>
           THEN Finish(s, "ok", "void")
           ELSE /\ tasks' = [tasks EXCEPT ![s] =
                                [t EXCEPT !.req = "deleteObjects",
                                          !.objects = BatchOf(t.resp.Contents),
                                          !.phase = "sent",
                                          !.calls = 2,
                                          !.resp = NoResp]]
                /\ UNCHANGED last
        /\ UNCHANGED <<prefix, cache, store>>

\* deleteDir after its listing: an empty listing returns, any other is
\* handed to one DeleteObjects call.
DeleteDirListed(s) ==
    LET t == tasks[s]
    IN  /\ Answered(s)
        /\ t.op = "deleteDir"
        /\ t.req = "listAll"
        /\ IF ~t.resp.ok
           THEN Finish(s, "DirectoryDeleteFailure", "none")
           ELSE IF t.resp.Contents = <<>> \/ BatchOf(t.resp.Contents) = <<>>
           THEN Finish(s, "ok", "void")
           ELSE /\ tasks' = [tasks EXCEPT ![s] =
                                [t EXCEPT !.req = "deleteObjects",
                                          !.objects = BatchOf(t.resp.Contents),
                                          !.phase = "sent",
                                          !.calls = 2,
                                          !.resp = NoResp]]
                /\ UNCHANGED last
        /\ UNCHANGED <<prefix, cache, store>>

\* deleteDir that drops the batch from the cache whatever the store answered.
DeleteDirResumeEager(s) ==
    LET t == tasks[s]
    IN  /\ Answered(s)
        /\ t.op = "deleteDir"
        /\ t.req = "deleteObjects"
        /\ cache' = [cache EXCEPT ![t.inst] =
                        CacheDelete(@, {o.Key : o \in Range(t.objects)})]
        /\ IF t.resp.ok
           THEN Finish(s, "ok", "void")
           ELSE Finish(s, "DirectoryDeleteFailure", "none")
        /\ UNCHANGED <<prefix, store>>

\* deleteDir after its batch delete: every key of the batch leaves the cache.
DeleteDirResume(s) ==
    LET t == tasks[s]
    IN  /\ Answered(s)
        /\ t.op = "deleteDir"
        /\ t.req = "deleteObjects"
        /\ IF t.resp.ok
           THEN /\ cache' = [cache EXCEPT ![t.inst] =
                                CacheDelete(@, {o.Key : o \in Range(t.objects)})]
                /\ Finish(s, "ok", "void")
           ELSE /\ Finish(s, "DirectoryDeleteFailure", "none")
                /\ UNCHANGED cache
        /\ UNCHANGED <<prefix, store>>

StatResume(s, TS) ==
    LET t == tasks[s]
        size == IF t.resp.ContentLength = NoLength THEN 0 ELSE t.resp.ContentLength
    IN  /\ Answered(s)
        /\ t.op = "stat"
        /\ IF t.resp.ok
           THEN \E m, c, a \in TS :
                  LET mtime == IF t.resp.LastModified # NoTime THEN t.resp.LastModified ELSE m
                      ctime == IF t.resp.LastModified # NoTime THEN t.resp.LastModified ELSE c
                      atime == IF t.resp.LastModified # NoTime THEN t.resp.LastModified ELSE a
                  IN  /\ cache' = [cache EXCEPT ![t.inst] =
                                      CacheSet(@, t.key, [size |-> size,
                                                          lastModified |-> mtime,
                                                          etag |-> t.resp.ETag])]
                      /\ Finish(s, "ok", FileStats(size, mtime, ctime, atime))
           ELSE /\ Finish(s, IF isNotFoundError(t.resp.err) THEN "NotFound"
                             ELSE "StatFailure", "none")
                /\ UNCHANGED cache
        /\ UNCHANGED <<prefix, store>>

----------------------------------------------------------------------------
(* Specifications.  A world W names who acts and on what: the facade       *)
(* instances and call slots in use, the file and directory paths passed,   *)
(* the contents written, the clock readings, the errors the store client   *)
(* raises and the header shapes of its responses.                          *)

\* The objects a bucket may already hold when a facade is constructed:
\* any of the world's files in instance 1's namespace, with any content.
Buckets(pfx, W) ==
    UNION {[K -> [body : {Utf8Encode(c) : c \in W.contents}, lastModified : W.times,
                  writer : {NoWriter}]] :
              K \in SUBSET {getR2Key(pfx, p) : p \in W.files}}

\* The state after construction: empty caches, nothing in flight, over a
\* bucket that an earlier session may have filled.
InitOver(W) ==
    /\ prefix \in W.prefixes
    /\ cache = [i \in Insts |-> <<>>]
    /\ store \in Buckets(prefix[1], W)
    /\ tasks = [s \in Slots |-> NoTask]
    /\ last = NoCall

\* One step: a facade makes a call, the store serves a request, or a
\* suspended call resumes.
NextOver(W) ==
    \E s \in W.slots :
        \/ \E i \in W.insts, p \in W.files : ReadFileCall(s, i, p)
        \/ \E i \in W.insts, p \in W.files, c \in W.contents : WriteFileCall(s, i, p, c)
        \/ \E i \in W.insts, p \in W.files : ExistsCall(s, i, p)
        \/ \E i \in W.insts, p \in W.files : DeleteFileCall(s, i, p)
        \/ \E i \in W.insts, p \in W.files : StatCall(s, i, p)
        \/ \E i \in W.insts, p \in W.dirs : ReadDirCall(s, i, p)
        \/ \E i \in W.insts, p \in W.dirs : DeleteDirCall(s, i, p)
        \/ StoreFail(s, W.errors)
        \/ StoreGet(s, W.shapes)
        \/ StoreHead(s, W.shapes)
        \/ StorePut(s, W.times)
        \/ StoreDelete(s)
        \/ StoreList(s)
        \/ StoreDeleteObjects(s)
        \/ ReadFileResume(s)
        \/ WriteFileResume(s, W.times)
        \/ ExistsResume(s)
        \/ DeleteFileResume(s)
        \/ ReadDirResume(s)
        \/ DeleteDirListed(s)
        \/ DeleteDirResume(s)
        \/ StatResume(s, W.times)

\* Clock readings (the store's LastModified and the facade's new Date()).
MaxTime == 2
Times == 1..MaxTime

\* File contents: "x" (one byte), "e-acute" (two bytes), a surrogate pair
\* (four bytes) and an unpaired high surrogate.
Contents == {<<120>>, <<233>>, <<55357, 56832>>, <<55357>>}

\* The namespace prefix of instance 1: none, or "p".
Prefixes == {[i \in Insts |-> IF i = 1 THEN p ELSE <<"q">>] : p \in {<<>>, <<"p">>}}

\* One facade, one call at a time, on one file (named with and without a
\* leading slash), its directory and the root.
FileWorld ==
    [insts |-> {1}, slots |-> {1}, prefixes |-> Prefixes,
     files |-> {<<"d", "/", "a">>, <<"/", "d", "/", "a">>},
     dirs |-> {<<"d">>, <<>>},
     contents |-> Contents, times |-> Times,
     errors |-> StoreErrors, shapes |-> HeaderShapes]

Init == InitOver(FileWorld)
Next == NextOver(FileWorld)
Spec == Init /\ [][Next]_vars

\* One facade, one call at a time, over a directory tree: two files and a
\* subdirectory of two files under d, every file with the same content and
\* timestamp.  The directory d is named with and without a leading slash.
TreeWorld ==
    [insts |-> {1}, slots |-> {1}, prefixes |-> Prefixes,
     files |-> {<<"d", "/", "a">>, <<"d", "/", "b">>, <<"d", "/", "s", "/", "c">>},
     dirs |-> {<<"d">>, <<"/", "d">>, <<>>},
     contents |-> {<<120>>}, times |-> {1},
     errors |-> StoreErrors, shapes |-> HeaderShapes]

InitDir == InitOver(TreeWorld)
NextDir == NextOver(TreeWorld)
SpecDir == InitDir /\ [][NextDir]_vars

\* Two facades on the same bucket and the same namespace, one call at a
\* time, on one file and its directory: what one facade writes or deletes
\* changes the bucket under the other's cache.
SharedWorld ==
    [insts |-> {1, 2}, slots |-> {1},
     prefixes |-> {[i \in Insts |-> <<"p">>]},
     files |-> {<<"d", "/", "a">>},
     dirs |-> {<<"d">>},
     contents |-> {<<120>>, <<233>>}, times |-> {1},
     errors |-> StoreErrors, shapes |-> HeaderShapes]

InitShared == InitOver(SharedWorld)
NextShared == NextOver(SharedWorld)
SpecShared == InitShared /\ [][NextShared]_vars

\* Two facades on the same bucket with different namespace prefixes: none
\* and "q", "p" and "q", "p" and "p/q".  The first facade's path "q/a"
\* spells, under the first and the third pair, the key of the second
\* facade's path "a".
NamespacePrefixes ==
    { <<pair[1], pair[2]>> :
        pair \in { << <<>>, <<"q">> >>,
                   << <<"p">>, <<"q">> >>,
                   << <<"p">>, <<"p", "/", "q">> >> } }

NamespaceWorld ==
    [insts |-> {1, 2}, slots |-> {1},
     prefixes |-> NamespacePrefixes,
     files |-> {<<"a">>, <<"q", "/", "a">>},
     dirs |-> {<<"q">>},
     contents |-> {<<120>>}, times |-> {1},
     errors |-> StoreErrors, shapes |-> {"full"}]

InitNamespace == InitOver(NamespaceWorld)
NextNamespace == NextOver(NamespaceWorld)
SpecNamespace == InitNamespace /\ [][NextNamespace]_vars

\* One facade, with and without a prefix, on paths that differ in their
\* leading slashes ("a", "/a", "//a"), on a path that spells the prefix
\* ("p"), and on the root directory.
CodecWorld ==
    [insts |-> {1}, slots |-> {1}, prefixes |-> Prefixes,
     files |-> {<<"a">>, <<"/", "a">>, <<"/", "/", "a">>, <<"p">>},
     dirs |-> {<<>>, <<"/">>},
     contents |-> {<<120>>}, times |-> {1},
     errors |-> StoreErrors, shapes |-> {"full"}]

InitCodec == InitOver(CodecWorld)
NextCodec == NextOver(CodecWorld)
SpecCodec == InitCodec /\ [][NextCodec]_vars

\* One step of a facade that only writes, reads and stats files, each call
\* slot s on the paths W.lanes[s].
NextFiles(W) ==
    \E s \in W.slots :
        \/ \E i \in W.insts, p \in W.lanes[s], c \in W.contents : WriteFileCall(s, i, p, c)
        \/ \E i \in W.insts, p \in W.lanes[s] : ReadFileCall(s, i, p)
        \/ \E i \in W.insts, p \in W.lanes[s] : StatCall(s, i, p)
        \/ StoreFail(s, W.errors)
        \/ StorePut(s, W.times)
        \/ StoreGet(s, W.shapes)
        \/ StoreHead(s, W.shapes)
        \/ WriteFileResume(s, W.times)
        \/ ReadFileResume(s)
        \/ StatResume(s, W.times)

\* One facade with two calls in flight at a time, both on the same file.
RaceWorld ==
    [insts |-> {1}, slots |-> {1, 2},
     prefixes |-> {[i \in Insts |-> <<>>]},
     files |-> {<<"a">>},
     lanes |-> [s \in Slots |-> {<<"a">>}],
     contents |-> {<<120>>, <<233>>}, times |-> {1},
     errors |-> {[name |-> "TimeoutError", status |-> 0]}, shapes |-> {"full"}]

InitRace == InitOver(RaceWorld)
NextRace == NextFiles(RaceWorld)
SpecRace == InitRace /\ [][NextRace]_vars

\* One facade with two calls in flight at a time, each slot on a file of
\* its own.
DistinctWorld ==
    [insts |-> {1}, slots |-> {1, 2},
     prefixes |-> {[i \in Insts |-> <<>>]},
     files |-> {<<"a">>, <<"b">>},
     lanes |-> [s \in Slots |-> IF s = 1 THEN {<<"a">>} ELSE {<<"b">>}],
     contents |-> {<<120>>, <<233>>}, times |-> {1},
     errors |-> {[name |-> "TimeoutError", status |-> 0]}, shapes |-> {"full"}]

InitDistinct == InitOver(DistinctWorld)
NextDistinct == NextFiles(DistinctWorld)
SpecDistinct == InitDistinct /\ [][NextDistinct]_vars

\* One facade on a directory d that holds, besides the file d/a, an object
\* under the directory's own key "d/".
MarkerWorld ==
    [insts |-> {1}, slots |-> {1}, prefixes |-> Prefixes,
     files |-> {<<"d", "/">>, <<"d", "/", "a">>},
     dirs |-> {<<"d">>},
     contents |-> {<<120>>}, times |-> {1},
     errors |-> StoreErrors, shapes |-> {"full"}]

InitMarker == InitOver(MarkerWorld)
NextMarker == NextOver(MarkerWorld)
SpecMarker == InitMarker /\ [][NextMarker]_vars

\* One step of the calls that add to or remove from the bucket, and of
\* exists: writeFile, deleteFile, deleteDir and exists, any number of them
\* in flight together.
NextMutate(W) ==
    \E s \in W.slots :
        \/ \E i \in W.insts, p \in W.files, c \in W.contents : WriteFileCall(s, i, p, c)
        \/ \E i \in W.insts, p \in W.files : ExistsCall(s, i, p)
        \/ \E i \in W.insts, p \in W.files : DeleteFileCall(s, i, p)
        \/ \E i \in W.insts, p \in W.dirs : DeleteDirCall(s, i, p)
        \/ StoreFail(s, W.errors)
        \/ StoreHead(s, W.shapes)
        \/ StorePut(s, W.times)
        \/ StoreDelete(s)
        \/ StoreList(s)
        \/ StoreDeleteObjects(s)
        \/ WriteFileResume(s, W.times)
        \/ ExistsResume(s)
        \/ DeleteFileResume(s)
        \/ DeleteDirListed(s)
        \/ DeleteDirResume(s)

\* One facade with two calls in flight at a time on the file d/a and its
\* directory, over a store that serves every request: its only error is the
\* 404 that answers a request for a key the bucket does not hold.
InterleaveWorld ==
    [insts |-> {1}, slots |-> {1, 2},
     prefixes |-> {[i \in Insts |-> <<>>]},
     files |-> {<<"d", "/", "a">>},
     dirs |-> {<<"d">>},
     contents |-> {<<120>>}, times |-> {1},
     errors |-> {[name |-> "NotFound", status |-> 404]}, shapes |-> {"full"}]

InitInterleave == InitOver(InterleaveWorld)
NextInterleave == NextMutate(InterleaveWorld)
SpecInterleave == InitInterleave /\ [][NextInterleave]_vars

\* Two facades on one bucket, one call at a time, the first without a
\* prefix or with the prefix "p", the second with the prefix "q".  Each
\* works on the directory q (named with and without a leading slash), on
\* the file q/a in it and on the file q2 beside it, whose name begins with
\* the directory's.  Under the first pair of prefixes the directory q of the
\* first facade is the whole namespace of the second.
FrameWorld ==
    [insts |-> {1, 2}, slots |-> {1}, prefixes |-> Prefixes,
     files |-> {<<"q", "/", "a">>, <<"q", "2">>},
     dirs |-> {<<"q">>, <<"/", "q">>},
     contents |-> {<<120>>}, times |-> {1},
     errors |-> {[name |-> "TimeoutError", status |-> 0]}, shapes |-> {"full"}]

InitFrame == InitOver(FrameWorld)
NextFrame == NextOver(FrameWorld)
SpecFrame == InitFrame /\ [][NextFrame]_vars

----------------------------------------------------------------------------
(* Properties.  Each is stated over `last`, the call that has just         *)
(* completed, and `last.after`, the successful call of the same facade on  *)
(* a related key that completed immediately before it was made.            *)

\* A string of UTF-16 code units in which every surrogate is paired.
RECURSIVE WellFormed(_)
WellFormed(content) ==
    IF content = <<>> THEN TRUE
    ELSE IF IsHighSurrogate(Head(content))
    THEN /\ Len(content) >= 2
         /\ IsLowSurrogate(content[2])
         /\ WellFormed(Slice(content, 2))
    ELSE /\ ~IsLowSurrogate(Head(content))
         /\ WellFormed(Tail(content))

\* readFile(p) has returned, and the call before it was a successful
\* writeFile(p, c).
ReadAfterWrite ==
    /\ last.op = "readFile"
    /\ last.outcome = "ok"
    /\ last.after.op = "writeFile"
    /\ last.after.path = last.path

\* C1 (as amended): a successful writeFile(p, c) followed by readFile(p)
\* returns exactly c, for every content c in which no surrogate is unpaired.
RoundTripWellFormed ==
    ReadAfterWrite /\ WellFormed(last.after.content)
        => last.value = last.after.content

\* C1 (as stated): a successful writeFile(p, c) followed by readFile(p)
\* returns exactly c, for any string content c.
RoundTripAnyString ==
    ReadAfterWrite => last.value = last.after.content

\* A surrogate pair has been written and read back.
RoundTripWitness ==
    /\ ReadAfterWrite
    /\ last.after.content = <<55357, 56832>>
    /\ last.value = <<55357, 56832>>

\* exists(p) has returned, and the call before it was a successful call on
\* the same path.
ExistsAfter(op) ==
    /\ last.op = "exists"
    /\ last.outcome = "ok"
    /\ last.after.op = op
    /\ last.after.path = last.path

\* C2: the exists(p) that follows a successful writeFile(p, c) returns true,
\* and the exists(p) that follows a deleteFile(p) that returned successfully
\* returns false, whatever the cache held and however the store answered.
ExistenceConsistency ==
    /\ ExistsAfter("writeFile") => last.value = TRUE
    /\ ExistsAfter("deleteFile") => last.value = FALSE

\* deleteFile(p) was served by the store while the bucket held no object
\* under p's key.
DeleteOfAbsent ==
    /\ last.op = "deleteFile"
    /\ ~last.present

\* C3: deleteFile(p) on a path with no object completes successfully, both
\* when the store answers with success and when it answers with a not-found
\* signal (name NoSuchKey or status 404).
IdempotentDelete ==
    /\ DeleteOfAbsent
    /\ \/ last.err = NoError
       \/ last.err.name = "NoSuchKey"
       \/ last.err.status = 404
    => last.outcome = "ok"

\* A delete of an absent object answered with NoSuchKey has completed
\* successfully.
IdempotentDeleteWitness ==
    /\ DeleteOfAbsent
    /\ last.err.name = "NoSuchKey"
    /\ last.outcome = "ok"

\* C4: a stat(p) made while the cache holds p's key issues no store call and
\* returns exactly the cached size and modification time; the stat(p) that
\* follows a successful stat(p) is such a call and repeats its size and
\* modification time.
StatShortCircuit ==
    /\ last.op = "stat" /\ last.hit
          => /\ last.calls = 0
             /\ last.outcome = "ok"
             /\ last.value.size = cache[last.inst][last.key].size
             /\ last.value.mtime = cache[last.inst][last.key].lastModified
    /\ last.op = "stat" /\ last.after.op = "stat" /\ last.after.path = last.path
          => /\ last.hit
             /\ last.value.size = last.after.value.size
             /\ last.value.mtime = last.after.value.mtime

\* A stat answered from the entry that the exists before it fetched from
\* the store.
StatShortCircuitWitness ==
    /\ last.op = "stat"
    /\ last.hit
    /\ last.calls = 0
    /\ last.after.op = "exists"
    /\ last.after.calls = 1
    /\ last.after.path = last.path

\* C5: exists(p) made while the cache holds p's key returns true with zero
\* store calls, whether or not the bucket still holds the object.
ExistsShortCircuit ==
    last.op = "exists" /\ last.hit
        => /\ last.calls = 0
           /\ last.outcome = "ok"
           /\ last.value = TRUE

\* exists has answered true from the cache for an object that another
\* facade has deleted from the bucket.
ExistsShortCircuitWitness ==
    /\ last.op = "exists"
    /\ last.hit
    /\ last.value = TRUE
    /\ last.key \notin DOMAIN store

\* The name under which a key below a directory prefix shows among the
\* directory's direct children: the file name of an object one level below,
\* "<name>/" for the first segment of a deeper one.
ChildName(dirKey, key) ==
    LET rest == Slice(key, Len(dirKey))
    IN  IF Includes(rest, "/") THEN SubSeq(rest, 1, FirstSlash(rest)) ELSE rest

DirectChildren(bucket, dirKey) ==
    {ChildName(dirKey, k) : k \in {k \in DOMAIN bucket : StartsWith(k, dirKey) /\ k # dirKey}}

\* The keys of a set that lie under a directory prefix.
Under(keys, dirKey) == {k \in keys : StartsWith(k, dirKey)}

\* readDir(d) has returned a listing.
ReadDirReturned ==
    /\ last.op = "readDir"
    /\ last.outcome = "ok"

\* C6: for any directory path d and any stored objects, readDir(d) returns
\* exactly one entry per direct child of d: the file name of every object
\* one level below d and "<name>/" for every first segment with deeper
\* objects, and nothing else.
ListingShape ==
    ReadDirReturned
        => /\ Range(last.value) = DirectChildren(store, last.key)
           /\ Len(last.value) = Cardinality(DirectChildren(store, last.key))

\* C7: the sequence readDir returns is in ascending order of the entry
\* names, files and "<name>/" markers compared together, in whatever order
\* the store returned objects and common prefixes.
ReadDirSorted ==
    ReadDirReturned
        => \A j, k \in 1..Len(last.value) :
              j < k => StrLess(last.value[j], last.value[k])

\* readDir("d") has returned a file and a directory marker.
ReadDirSortedWitness ==
    /\ ReadDirReturned
    /\ last.value = << <<"a">>, <<"s", "/">> >>

\* C8: readDir on a path under which the bucket holds no object, once the
\* store has answered the listing, returns the empty sequence as a normal
\* success.
EmptyDirectory ==
    /\ last.op = "readDir"
    /\ last.err = NoError
    /\ Under(DOMAIN store, last.key) = {}
    => /\ last.outcome = "ok"
       /\ last.value = <<>>

\* readDir("d") has returned the empty sequence while the bucket holds
\* nothing under d.
EmptyDirectoryWitness ==
    /\ ReadDirReturned
    /\ last.path = <<"d">>
    /\ Under(DOMAIN store, last.key) = {}
    /\ last.value = <<>>

\* C9: after deleteDir(d) has returned successfully, exists(f) returns false
\* for every file f under d, at any depth.
RecursiveDelete ==
    /\ last.op = "exists"
    /\ last.outcome = "ok"
    /\ last.after.op = "deleteDir"
    /\ StartsWith(last.key, last.after.key)
    => last.value = FALSE

\* C10: when deleteDir(d) returns successfully, no object whose key begins
\* with the encoded prefix of d remains in the bucket and none of those keys
\* remains in the cache, however many objects the listing had to enumerate.
DeleteDirComplete ==
    last.op = "deleteDir" /\ last.outcome = "ok"
        => /\ Under(DOMAIN store, last.key) = {}
           /\ Under(DOMAIN cache[last.inst], last.key) = {}

\* The other of the two facades.
Other(i) == IF i = 1 THEN 2 ELSE 1

\* The objects of the bucket that facade i has written.
WrittenBy(i) == {k \in DOMAIN store : store[k].writer = i}

\* The call that has just completed reported, through exists or readDir, an
\* object written through the other facade.
ReportsForeign ==
    \/ /\ last.op = "exists"
       /\ last.outcome = "ok"
       /\ last.value = TRUE
       /\ last.key \in WrittenBy(Other(last.inst))
    \/ /\ last.op = "readDir"
       /\ last.outcome = "ok"
       /\ \E k \in Under(WrittenBy(Other(last.inst)), last.key) :
             ChildName(last.key, k) \in Range(last.value)

\* Two namespaces of which neither contains the other: both prefixes are
\* set, and neither "<prefix>/" begins with the other.
Disjoint(p1, p2) ==
    /\ p1 # <<>>
    /\ p2 # <<>>
    /\ ~StartsWith(p1 \o <<"/">>, p2 \o <<"/">>)
    /\ ~StartsWith(p2 \o <<"/">>, p1 \o <<"/">>)

\* C11 (as amended): of two facades on one bucket whose prefixes are both
\* set and of which neither is a path-ancestor of the other, neither ever
\* reports through readDir or exists an object written through the other.
IsolationOfDisjointPrefixes ==
    Disjoint(prefix[1], prefix[2]) => ~ReportsForeign

\* C11 (as stated): of two facades on one bucket with different prefixes,
\* an empty one and a path-ancestor of the other included, neither ever
\* reports through readDir or exists an object written through the other.
IsolationOfAnyPrefixes ==
    prefix[1] # prefix[2] => ~ReportsForeign

\* Under the prefixes "p" and "q" the second facade has written q/a, and
\* the first facade's exists("q/a") has returned false.
IsolationWitness ==
    /\ Disjoint(prefix[1], prefix[2])
    /\ WrittenBy(2) # {}
    /\ last.inst = 1
    /\ last.op = "exists"
    /\ last.path = <<"q", "/", "a">>
    /\ last.outcome = "ok"
    /\ last.value = FALSE

\* The operations that take the path of a file.
FileOps == {"readFile", "writeFile", "exists", "deleteFile", "stat"}

\* C12: for every prefix, none included, the key a path is encoded to
\* decodes to the path itself when the path does not start with "/" and is
\* not the prefix, and to the path without its first "/" when it starts
\* with one.
CodecInverse ==
    last.op \in FileOps =>
        LET pfx == prefix[last.inst]
            decoded == getLocalPath(pfx, last.key)
        IN  /\ ~StartsWith(last.path, <<"/">>) /\ last.path # pfx
                  => decoded = last.path
            /\ StartsWith(last.path, <<"/">>)
                  => decoded = Tail(last.path)

\* Under the prefix "p" a call on "/a" has used the key "p/a", which
\* decodes to "a".
CodecInverseWitness ==
    /\ last.op \in FileOps
    /\ prefix[last.inst] = <<"p">>
    /\ last.path = <<"/", "a">>
    /\ last.key = <<"p", "/", "a">>
    /\ getLocalPath(<<"p">>, last.key) = <<"a">>

\* A key in the namespace of facade i: no leading "/", and under
\* "<prefix>/" when a prefix is set.
StoreKeyOf(i, key) ==
    /\ ~StartsWith(key, <<"/">>)
    /\ prefix[i] # <<>> => StartsWith(key, prefix[i] \o <<"/">>)

\* C13: every key that an operation sends to the store or uses as a cache
\* key has no leading "/" and, when a prefix is set, starts with
\* "<prefix>/", for every input path.
StoreKeyInvariant ==
    /\ \A s \in Slots :
          /\ tasks[s].req \in {"get", "put", "head", "delete"}
                => StoreKeyOf(tasks[s].inst, tasks[s].key)
          /\ \A k \in 1..Len(tasks[s].objects) :
                StoreKeyOf(tasks[s].inst, tasks[s].objects[k].Key)
    /\ \A i \in Insts : \A key \in DOMAIN cache[i] : StoreKeyOf(i, key)

\* C14: after deleteFile(p) has completed, whether the store's delete
\* succeeded, reported not-found or failed with another error, the cache
\* holds no entry for p's key.
DeleteFileClearsCache ==
    last.op = "deleteFile" => last.key \notin DOMAIN cache[last.inst]

\* The not-found signal of the store: the name NoSuchKey or the status 404.
NotFoundSignal(err) ==
    \/ err.name = "NoSuchKey"
    \/ err.status = 404

\* exists(p) has completed after a head request, the cache not holding p's
\* key when it was called.
ExistsOnMiss ==
    /\ last.op = "exists"
    /\ ~last.hit

\* C15: on a cache miss exists(p) returns false exactly when the head
\* request failed with a not-found signal, fails with the existence-check
\* failure on any other store error, and in both cases leaves the cache
\* without an entry for the key.
ExistsErrorHandling ==
    ExistsOnMiss =>
        /\ (last.outcome = "ok" /\ last.value = FALSE)
              <=> (last.err # NoError /\ NotFoundSignal(last.err))
        /\ last.err # NoError /\ ~NotFoundSignal(last.err)
              => last.outcome = "ExistenceCheckFailure"
        /\ last.err # NoError => last.key \notin DOMAIN cache[last.inst]

\* exists on a file that the bucket holds has failed on a timeout.
ExistsErrorHandlingWitness ==
    /\ ExistsOnMiss
    /\ last.err.name = "TimeoutError"
    /\ last.present
    /\ last.outcome = "ExistenceCheckFailure"
    /\ last.key \notin DOMAIN cache[last.inst]

\* exists resumes in slot s on a successful head response and returns.
ExistsSucceeds(s) ==
    /\ tasks[s].op = "exists"
    /\ Answered(s)
    /\ tasks[s].resp.ok
    /\ tasks'[s] = NoTask

\* C16 (as amended): when exists(p) returns true after a successful head
\* response that carries both the content length and the last-modified
\* time, the cache holds an entry for p's key afterwards.
ExistsPopulatesFromFullResponse ==
    [][\A s \in Slots :
          /\ ExistsSucceeds(s)
          /\ tasks[s].resp.ContentLength # NoLength
          /\ tasks[s].resp.LastModified # NoTime
          => tasks[s].key \in DOMAIN cache'[tasks[s].inst]]_vars

\* C16 (as stated): whenever exists(p) has returned true after a successful
\* head request, whatever headers the response carried, the cache holds an
\* entry for p's key.
ExistsAlwaysPopulates ==
    /\ last.op = "exists"
    /\ last.outcome = "ok"
    /\ last.calls = 1
    /\ last.value = TRUE
    => last.key \in DOMAIN cache[last.inst]

\* exists has returned true after a head request and the cache holds the
\* key.
ExistsPopulatesWitness ==
    /\ last.op = "exists"
    /\ last.outcome = "ok"
    /\ last.calls = 1
    /\ last.value = TRUE
    /\ last.key \in DOMAIN cache[last.inst]

\* readFile(p) or a stat(p) that went to the store has completed after the
\* store call failed.
ReadOrStatFailed ==
    /\ last.op \in {"readFile", "stat"}
    /\ last.err # NoError

\* C17: readFile(p) and an uncached stat(p) whose store call failed fail
\* with the not-found failure exactly when the error is a not-found signal,
\* and with the read failure or the stat failure for every other error;
\* neither returns a result.
ReadStatErrorHandling ==
    ReadOrStatFailed =>
        /\ last.outcome # "ok"
        /\ last.outcome = "NotFound" <=> NotFoundSignal(last.err)
        /\ ~NotFoundSignal(last.err) =>
              last.outcome = IF last.op = "readFile" THEN "ReadFailure"
                             ELSE "StatFailure"

\* A stat of a file that the bucket holds has failed on a timeout with the
\* stat failure.
ReadStatErrorHandlingWitness ==
    /\ ReadOrStatFailed
    /\ last.op = "stat"
    /\ last.present
    /\ last.err.name = "TimeoutError"
    /\ last.outcome = "StatFailure"

\* A step of the writeFile call in slot s.
WriteFileStep(s) ==
    /\ tasks'[s] # tasks[s]
    /\ tasks[s].op = "writeFile" \/ tasks'[s].op = "writeFile"

\* writeFile resumes in slot s on a failed store call and completes.
WriteFails(s) ==
    /\ tasks[s].op = "writeFile"
    /\ Answered(s)
    /\ ~tasks[s].resp.ok
    /\ tasks'[s] = NoTask

\* C18: writeFile(p, c) fails with the write failure for every store error,
\* a not-found signal included, and no step of a writeFile whose store call
\* failed changes the cache.
WriteErrorHandling ==
    [][\A s \in Slots :
          /\ WriteFails(s) => last'.outcome = "WriteFailure"
          /\ WriteFileStep(s) /\ ~(Answered(s) /\ tasks[s].resp.ok)
                => cache' = cache]_vars

\* A writeFile answered with a 404 has failed with the write failure, and
\* the entry cached for the key before the call is still there.
WriteErrorHandlingWitness ==
    /\ last.op = "writeFile"
    /\ last.err.status = 404
    /\ last.outcome = "WriteFailure"
    /\ last.hit
    /\ last.key \in DOMAIN cache[last.inst]

\* stat(p) has completed, and the call before it was a successful
\* writeFile(p, c).
StatAfterWrite ==
    /\ last.op = "stat"
    /\ last.after.op = "writeFile"
    /\ last.after.path = last.path

\* C19: the stat(p) that follows a successful writeFile(p, c) issues no
\* store call and reports the UTF-8 byte length of c as the size, with
\* isFile true and isDirectory false, whatever was cached for p before.
StatAfterWriteReportsLength ==
    StatAfterWrite =>
        /\ last.calls = 0
        /\ last.outcome = "ok"
        /\ last.value.size = Len(Utf8Encode(last.after.content))
        /\ last.value.isFile
        /\ ~last.value.isDirectory

\* The stat after a write of "e-acute" has reported two bytes without a
\* store call.
StatAfterWriteWitness ==
    /\ StatAfterWrite
    /\ last.after.content = <<233>>
    /\ last.after.calls = 1
    /\ last.calls = 0
    /\ last.value.size = 2

\* deleteDir(d) has completed after one of its store calls failed.
DeleteDirFailed ==
    /\ last.op = "deleteDir"
    /\ last.err # NoError

\* C20 (as amended): deleteDir(d) fails with the directory-delete failure
\* whenever its list call or its batch-delete call fails, a not-found
\* signal included.
DeleteDirFailsOnEveryError ==
    DeleteDirFailed => last.outcome = "DirectoryDeleteFailure"

\* C20 (as stated): when the list call or the batch-delete call of
\* deleteDir(d) fails with a not-found signal, deleteDir(d) returns
\* successfully.
DeleteDirSwallowsNotFound ==
    DeleteDirFailed /\ NotFoundSignal(last.err) => last.outcome = "ok"

\* A deleteDir whose listing was answered with a 404 has failed.
DeleteDirFailsWitness ==
    /\ DeleteDirFailed
    /\ last.calls = 1
    /\ last.err.status = 404
    /\ last.outcome = "DirectoryDeleteFailure"

\* A step of the deleteDir call in slot s.
DeleteDirStep(s) ==
    /\ tasks'[s] # tasks[s]
    /\ tasks[s].op = "deleteDir" \/ tasks'[s].op = "deleteDir"

\* deleteDir resumes in slot s on the answer to its request `req`.
DeleteDirAnswered(s, req) ==
    /\ tasks[s].op = "deleteDir"
    /\ Answered(s)
    /\ tasks[s].req = req
    /\ tasks'[s] # tasks[s]

\* C21: a store failure in the listing or in the batch delete makes
\* deleteDir fail with the directory-delete failure; no step of a deleteDir
\* other than the return after a successful batch delete changes the cache;
\* a successful empty listing makes deleteDir return successfully with the
\* listing as its only store call.
DeleteDirErrorHandling ==
    [][\A s \in Slots :
          /\ DeleteDirStep(s)
             /\ ~(DeleteDirAnswered(s, "deleteObjects") /\ tasks[s].resp.ok)
                => cache' = cache
          /\ (DeleteDirAnswered(s, "listAll") \/ DeleteDirAnswered(s, "deleteObjects"))
             /\ ~tasks[s].resp.ok
                => /\ tasks'[s] = NoTask
                   /\ last'.outcome = "DirectoryDeleteFailure"
          /\ DeleteDirAnswered(s, "listAll")
             /\ tasks[s].resp.ok
             /\ tasks[s].resp.Contents = <<>>
                => /\ tasks'[s] = NoTask
                   /\ last'.outcome = "ok"
                   /\ last'.calls = 1]_vars

\* A deleteDir has failed in its batch delete, and a key of the directory is
\* still cached.
DeleteDirErrorHandlingWitness ==
    /\ last.op = "deleteDir"
    /\ last.calls = 2
    /\ last.outcome = "DirectoryDeleteFailure"
    /\ Under(DOMAIN cache[last.inst], last.key) # {}

\* The numbers of store calls one call of an operation may have issued
\* when it completes.
CallsOf(op) ==
    CASE op \in {"readFile", "writeFile", "deleteFile", "readDir"} -> {1}
      [] op \in {"exists", "stat"} -> {0, 1}
      [] op = "deleteDir" -> {1, 2}

\* C22: no operation retries: when a call completes it has issued exactly
\* one store call (readFile, writeFile, deleteFile, readDir), at most one
\* (exists, stat), or one list and at most one batch delete (deleteDir); and
\* a call whose store call failed completes without another store call.
NoRetry ==
    [][/\ last' # last /\ last'.op # "none" => last'.calls \in CallsOf(last'.op)
       /\ \A s \in Slots :
             Answered(s) /\ ~tasks[s].resp.ok /\ tasks'[s] # tasks[s]
                => tasks'[s] = NoTask]_vars

\* A readFile has failed after its one store call.
NoRetryWitness ==
    /\ last.op = "readFile"
    /\ last.outcome = "ReadFailure"
    /\ last.calls = 1

RepeatedReadIsCacheHit ==
    /\ last.op = "readFile"
    /\ last.after.op = "readFile"
    /\ last.after.path = last.path
    => /\ last.calls = 0
       /\ last.outcome = "ok"
       /\ last.value = last.after.value

\* No call is in flight.
AllCompleted == \A s \in Slots : tasks[s] = NoTask

\* C25: of two writeFile calls to one path in flight together, the cache
\* entry is the one of the call that resumed last: whenever a writeFile has
\* just completed successfully, the cache holds its key with the byte
\* length of its content, whatever the bucket holds.
CacheFollowsLastResponse ==
    last.op = "writeFile" /\ last.outcome = "ok" =>
        /\ last.key \in DOMAIN cache[last.inst]
        /\ cache[last.inst][last.key].size = Len(Utf8Encode(last.content))

\* Both writes have completed, and the entry cached by the one that
\* resumed last has another size than the object the bucket holds.
CacheFollowsLastResponseWitness ==
    /\ AllCompleted
    /\ last.op = "writeFile"
    /\ last.outcome = "ok"
    /\ last.key \in DOMAIN store
    /\ store[last.key].body # Utf8Encode(last.content)
    /\ cache[last.inst][last.key].size # Len(store[last.key].body)

\* The key the step of slot s works on.
KeyOfStep(s) ==
    IF tasks[s] # NoTask THEN tasks[s].key ELSE tasks'[s].key

\* The step leaves what the map f holds under key k as it was.
Keeps(f, g, k) ==
    /\ k \in DOMAIN g <=> k \in DOMAIN f
    /\ k \in DOMAIN f => g[k] = f[k]

\* A call of operation op resumes in slot s on a successful answer.
Succeeds(s, op) ==
    /\ tasks[s].op = op
    /\ Answered(s)
    /\ tasks[s].resp.ok
    /\ tasks'[s] = NoTask

\* C26: with writeFile calls to distinct paths in flight together, no step
\* of a call touches the bucket or the cache under another path's key; when
\* a write completes the bucket holds its content under its key and the
\* cache its byte length; and a readFile that follows the write of its path
\* returns the content written, whatever the other calls do meanwhile.
DistinctWritesIndependent ==
    [][\A s \in Slots :
          /\ tasks'[s] # tasks[s] =>
                \A k \in (DOMAIN store \cup DOMAIN store'
                            \cup DOMAIN cache[1] \cup DOMAIN cache'[1]) \ {KeyOfStep(s)} :
                    /\ Keeps(store, store', k)
                    /\ Keeps(cache[1], cache'[1], k)
          /\ Succeeds(s, "writeFile") =>
                /\ tasks[s].key \in DOMAIN store
                /\ store[tasks[s].key].body = Utf8Encode(tasks[s].content)
                /\ tasks[s].key \in DOMAIN cache'[tasks[s].inst]
                /\ cache'[tasks[s].inst][tasks[s].key].size
                      = Len(Utf8Encode(tasks[s].content))
          /\ Succeeds(s, "readFile") /\ tasks[s].after.op = "writeFile" =>
                last'.value = tasks[s].after.content]_vars

\* The read of "a" has returned what was written to "a" while the write of
\* "b" is in flight, answered by the store and not yet resumed.
DistinctWritesWitness ==
    /\ last.op = "readFile"
    /\ last.outcome = "ok"
    /\ last.path = <<"a">>
    /\ last.after.op = "writeFile"
    /\ last.value = last.after.content
    /\ tasks[2].op = "writeFile"
    /\ Answered(2)
    /\ tasks[2].resp.ok
    /\ <<"b">> \notin DOMAIN cache[1]

\* The facade whose call the step of slot s belongs to.
InstOfStep(s) ==
    IF tasks[s] # NoTask THEN tasks[s].inst ELSE tasks'[s].inst

\* C27: no step of an operation made through one facade adds, changes or
\* removes an entry in the cache of another facade, even when both address
\* the same bucket and the same key.
CacheOwnedByInstance ==
    [][\A s \in Slots :
          tasks'[s] # tasks[s] =>
              \A j \in Insts \ {InstOfStep(s)} : cache'[j] = cache[j]]_vars

\* The first facade has deleted the object and dropped it from its cache,
\* and exists on the second facade has answered true from its own cache.
CacheOwnedByInstanceWitness ==
    /\ last.inst = 2
    /\ last.op = "exists"
    /\ last.calls = 0
    /\ last.value = TRUE
    /\ last.key \notin DOMAIN store
    /\ last.key \notin DOMAIN cache[1]
    /\ last.key \in DOMAIN cache[2]

\* C28: readDir(d) gives the object whose key is exactly the encoded
\* directory prefix of d no entry, neither an empty file name nor a bare
\* "/", lists the other children as they are, and does not fail because of
\* it.
MarkerNotListed ==
    /\ last.op = "readDir"
    /\ last.err = NoError
    /\ last.key \in DOMAIN store
    => /\ last.outcome = "ok"
       /\ <<>> \notin Range(last.value)
       /\ <<"/">> \notin Range(last.value)
       /\ Range(last.value) = DirectChildren(store, last.key)

\* readDir("d") has returned the file "a" alone from a bucket that holds d/
\* and d/a.
MarkerNotListedWitness ==
    /\ ReadDirReturned
    /\ last.key \in DOMAIN store
    /\ Cardinality(Under(DOMAIN store, last.key)) = 2
    /\ last.value = << <<"a">> >>

LeadingSlashNeutral ==
    ReadDirReturned
        => /\ Range(last.value) \subseteq DirectChildren(store, last.key)
           /\ /\ last.after.op = "readDir"
              /\ last.after.outcome = "ok"
              /\ last.after.key = last.key
              => last.value = last.after.value

\* Every key a facade has cached names an object of the bucket, with the
\* object's byte length as the cached size.
Coherent ==
    \A i \in Insts :
        \A k \in DOMAIN cache[i] :
            /\ k \in DOMAIN store
            /\ cache[i][k].size = Len(store[k].body)

\* C31: with one facade making one call at a time, nothing else changing
\* the bucket and failed store calls leaving it as it was, whenever no call
\* is in flight every cached key names an object present in the bucket and
\* the cached size is that object's byte length.
SequentialCoherence == AllCompleted => Coherent

\* C32: with calls of one facade in flight together, nothing else changing
\* the bucket and a store that serves every request, once every call has
\* completed every cached key names an object present in the bucket; so a
\* writeFile(p) and a deleteFile(p), or a deleteDir of p's directory, made
\* together never end with the object gone and exists(p) answered true from
\* the cache.
InterleavedCoherence ==
    AllCompleted =>
        \A i \in Insts : DOMAIN cache[i] \subseteq DOMAIN store

\* The outcomes with which a call fails.
Failures ==
    {"NotFound", "ReadFailure", "WriteFailure", "ExistenceCheckFailure",
     "DeleteFailure", "ListFailure", "DirectoryDeleteFailure",
     "StatFailure"}

\* C33: an operation that completes with a failure returns no result and
\* leaves the cache as it was when the operation started: the step on which
\* a call fails changes no cache entry and carries no value, and no earlier
\* step of any call (its issue, the store's answer, the listing of
\* deleteDir) changes the cache either.
FailureLeavesNoTrace ==
    [][\A s \in Slots :
          /\ tasks'[s] # tasks[s] /\ tasks'[s] # NoTask => cache' = cache
          /\ tasks[s] # NoTask /\ tasks'[s] = NoTask /\ last'.outcome # "ok"
             => /\ last'.outcome \in Failures
                /\ last'.value = "none"
                /\ cache' = cache]_vars

\* deleteDir("d") has failed on its batch delete, and the object it had
\* listed is still in the cache and in the bucket.
FailureLeavesNoTraceWitness ==
    /\ last.op = "deleteDir"
    /\ last.outcome = "DirectoryDeleteFailure"
    /\ last.calls = 2
    /\ \E k \in DOMAIN cache[last.inst] :
          /\ StartsWith(k, last.key)
          /\ k \in DOMAIN store

\* The operation and the path of the call that takes a step in slot s.
OpOfStep(s) ==
    IF tasks[s] # NoTask THEN tasks[s].op ELSE tasks'[s].op

PathOfStep(s) ==
    IF tasks[s] # NoTask THEN tasks[s].path ELSE tasks'[s].path

\* The key prefix of what lies under the directory d in a namespace: the
\* namespace prefix and a slash when a prefix is set, then d without its
\* leading slash, then a slash.
DirScope(pfx, d) ==
    LET bare == StripTrailingSlash(IF StartsWith(d, <<"/">>) THEN Slice(d, 1) ELSE d)
        root == IF pfx = <<>> THEN <<>> ELSE pfx \o <<"/">>
    IN  root \o bare \o <<"/">>

\* The keys that a step removes from the bucket or from the cache of
\* facade i.
Dropped(i) ==
    (DOMAIN store \ DOMAIN store') \cup (DOMAIN cache[i] \ DOMAIN cache'[i])

\* No step of a deleteDir(d) removes from the bucket or from the cache a key
\* that does not begin with the key of d followed by "/"; no step of a
\* readFile, writeFile, exists, stat or readDir removes a cache entry.
TouchesOnlyUnder ==
    /\ \A s \in Slots :
          tasks'[s] # tasks[s] /\ OpOfStep(s) = "deleteDir" =>
              \A k \in Dropped(InstOfStep(s)) :
                  StartsWith(k, DirScope(prefix[InstOfStep(s)], PathOfStep(s)))
    /\ \A j \in Insts :
          ~(DOMAIN cache[j] \subseteq DOMAIN cache'[j]) =>
              \E s \in Slots :
                  /\ tasks'[s] # tasks[s]
                  /\ OpOfStep(s) \in {"deleteFile", "deleteDir"}

\* No step of a deleteDir removes from the bucket a key of the other
\* facade's namespace.
SparesOtherNamespace ==
    \A s \in Slots :
        tasks'[s] # tasks[s] /\ OpOfStep(s) = "deleteDir" =>
            \A k \in DOMAIN store \ DOMAIN store' :
                ~StoreKeyOf(Other(InstOfStep(s)), k)

============================================================================
